---- MODULE Spec2Model ----
(***************************************************************************)
(* Model of histo_lib: RandomTiler (tiler.py), WSI (wsi.py), Tile          *)
(* (tile.py) and scale_coordinates (utils.py).                             *)
(*                                                                         *)
(* One RandomTiler and one WSI live in a single Python process.  The       *)
(* generator random_tiles_generator and its consumer, the for loop of      *)
(* extract, run as coroutines of one thread; pc is the position of that    *)
(* thread.  np.random is the process-wide generator.                       *)
(*                                                                         *)
(* Names the sources use but do not define in this snapshot are read as    *)
(* follows: Coordinates (tiler.py:123, wsi.py:13) is CoordinatePair of     *)
(* utils.py:5; wsi.tissue_box_coords_wsi (tiler.py:120) is the tissue box  *)
(* of the slide in level-0 coordinates.                                    *)
(***************************************************************************)
EXTENDS Integers, Sequences, FiniteSets, TLC

\* ------------------------------------------------------------------ bounds
MaxTiles == 2
MaxIterArg == 2
MaxSeed == 1
MaxTileSide == 2
RngMod == 8
MaxCoord == 4
MaxDim == 4
MaxRegions == 2
MaxMaskSize == 10
PairTiles == 2
MaxRows == 2
MaxCalls == 2
MaxColumn == 2

\* ------------------------------------------------------------ input domains
Seeds == 0..MaxSeed

\* tile_size argument: <<n>> stands for the int n (no __len__), any other
\* sequence for a tuple or list of that length.
TileSizeArgs ==
    {<<t>> : t \in 1..MaxTileSide}
        \cup {<<MaxTileSide, 1>>, <<1, MaxTileSide>>}
        \cup {<<1, 1, 1>>}

\* openslide level_dimensions of the slides opened: (width, height) per level.
Pyramids ==
    { << <<8, 6>>, <<4, 3>> >>,
      << <<7, 7>>, <<3, 3>> >> }

\* Tissue boxes in level-0 coordinates (x_ul, y_ul, x_br, y_br).
TissueBoxes == { <<1, 1, 7, 6>>, <<2, 1, 3, 5>>, <<1, 2, 7, 3>> }

\* What the pixels of the slide are like: every tile shows tissue, none
\* does, the tiles whose level-0 x_ul is even do, or the file is damaged
\* where the level-0 x_ul is odd and shows tissue elsewhere.
Contents == {"tissue", "blank", "stripes", "damaged"}

\* --------------------------------------------------------------- variables
VARIABLES
    wsi,                \* the WSI object: level_dimensions, tissue box, pixels
    call,               \* arguments of the last RandomTiler(...) call
    made,               \* outcome of that call: "none", "ok", "AssertionError"
    tiler,              \* attributes of the RandomTiler instance
    rng,                \* state of the global np.random generator
    pc,                 \* position of the thread
    err,                \* exception that left extract, "none" if none
    iteration,          \* random_tiles_generator local
    valid_tile_counter, \* random_tiles_generator local
    tile_wsi_coords,    \* random_tiles_generator local
    box_coords_wsi,     \* box_coords_lvl local: the sampling box at level 0
    tile,               \* random_tiles_generator local
    tiles_counter,      \* extract local; meaningful when tiles_counter_bound
    tiles_counter_bound,\* whether the for loop has bound tiles_counter
    saved,              \* level-0 boxes of the tiles saved in this call
    reported,           \* the count printed at the end of extract, -1 if none
    n_draws,            \* np.random.randint calls that returned, this call
    n_reads,            \* read_region calls, this call
    n_validations,      \* has_enough_tissue calls, this call
    n_box_requests,     \* accesses of wsi.tissue_box_coords_wsi, this call
    runs,               \* per seed: completed extract calls and first result
    sc,                 \* one call of scale_coordinates: arguments and result
    seg,                \* one call of WSI.calculate_tissue_region
    val,                \* one call of Tile.has_enough_tissue
    samplers,           \* two RandomTiler instances run by two threads
    dl,                 \* a TCGAWSIDownloader, its remote and its output folder
    enc                 \* one call of encode_label

vars == <<wsi, call, made, tiler, rng, pc, err, iteration, valid_tile_counter,
          tile_wsi_coords, box_coords_wsi, tile, tiles_counter, tiles_counter_bound, saved,
          reported, n_draws, n_reads, n_validations, n_box_requests, runs,
          sc, seg, val, samplers, dl, enc>>

wsiVars == <<wsi>>
tilerVars == <<call, made, tiler>>
genVars == <<iteration, valid_tile_counter, tile_wsi_coords, box_coords_wsi,
            tile>>
consumerVars == <<tiles_counter, tiles_counter_bound, saved, reported>>
countVars == <<n_draws, n_reads, n_validations, n_box_requests>>
sideVars == <<sc, seg, val, samplers, dl, enc>>

\* ------------------------------------------------------------ pure helpers
NoBox == <<0, 0, 0, 0>>
\* What has_enough_tissue sees of the pixels of a tile: mean and standard
\* deviation of the grayscale image in thousandths, and the filled mask as
\* its number of pixels and the number of them that are 1.
TissuePixels == [gray_mean |-> 500, gray_std |-> 200, mask_size |-> 6,
                 mask_ones |-> 5]
BlankPixels == [gray_mean |-> 950, gray_std |-> 20, mask_size |-> 6,
                mask_ones |-> 0]
NoPixels == [gray_mean |-> 0, gray_std |-> 0, mask_size |-> 1, mask_ones |-> 0]

NoTile == [coords |-> NoBox, level |-> 0, size |-> <<0, 0>>,
           pixels |-> NoPixels]
NoTiler == [tile_size |-> <<0, 0>>, max_iter |-> 0, level |-> 0, n_tiles |-> 0,
            seed |-> 0, check_tissue |-> FALSE]

\* variant: the quotient is rounded up
scale_coordinates_ceil(reference_coords, reference_size, target_size) ==
    [i \in 1..4 |->
        LET axis == IF i \in {1, 3} THEN 1 ELSE 2
        IN  (reference_coords[i] * target_size[axis] + reference_size[axis] - 1)
                \div reference_size[axis]]

\* variant: the division is done before the multiplication, on integers
scale_coordinates_divide_first(reference_coords, reference_size, target_size) ==
    [i \in 1..4 |->
        LET axis == IF i \in {1, 3} THEN 1 ELSE 2
        IN  (reference_coords[i] \div reference_size[axis]) * target_size[axis]]

\* variant: x coordinates are scaled by the heights, y by the widths
scale_coordinates_swapped(reference_coords, reference_size, target_size) ==
    [i \in 1..4 |->
        LET axis == IF i \in {1, 3} THEN 2 ELSE 1
        IN  (reference_coords[i] * target_size[axis]) \div reference_size[axis]]

\* utils.py scale_coordinates: floor(c * target / reference) per coordinate,
\* x coordinates against widths, y coordinates against heights.
scale_coordinates(reference_coords, reference_size, target_size) ==
    [i \in 1..4 |->
        LET axis == IF i \in {1, 3} THEN 1 ELSE 2
        IN  (reference_coords[i] * target_size[axis]) \div reference_size[axis]]

\* WSI.levels
levels(w) == 0..(Len(w.level_dimensions) - 1)

\* WSI.get_dimensions
get_dimensions(w, level) == w.level_dimensions[level + 1]

\* ------------------------------------------------------- np.random (global)
\* The process-wide generator is modelled as a counter generator of period
\* RngMod: seeding fixes the state from the seed alone, every draw advances
\* the state and returns a value that depends on the state and the range.

\* variant: extract does not reseed the generator
np_random_seed_skipped(state, seed) == state

\* np.random.seed(seed): tiler.py:213
np_random_seed(state, seed) == seed % RngMod

rng_advance(state) == (state + 1) % RngMod

\* np.random.randint(low, high) raises ValueError unless low < high
randint_raises(low, high) == low >= high

\* value returned by np.random.randint(low, high), low <= value < high
randint(state, low, high) == low + (state % (high - low))

\* ------------------------------------------------------ RandomTiler.__init__
\* tiler.py:80-87: a tile_size with __len__ must have length 2
tile_size_ok(tile_size) == Len(tile_size) \in {1, 2}

\* tiler.py:83,85: (tile_w, tile_h)
tile_size_pair(tile_size) ==
    IF Len(tile_size) = 1 THEN <<tile_size[1], tile_size[1]>> ELSE tile_size

\* variant: max_iter must be strictly greater than n_tiles
max_iter_ok_strict(max_iter, n_tiles) == max_iter > n_tiles

\* tiler.py:89-91
max_iter_ok(max_iter, n_tiles) == max_iter >= n_tiles

\* RandomTiler(tile_size, n_tiles, level, seed, check_tissue, max_iter)
RandomTiler(tile_size, n_tiles, level, seed, check_tissue, max_iter) ==
    /\ call' = [tile_size |-> tile_size, n_tiles |-> n_tiles, level |-> level,
                seed |-> seed, check_tissue |-> check_tissue,
                max_iter |-> max_iter]
    /\ IF tile_size_ok(tile_size) /\ max_iter_ok(max_iter, n_tiles)
       THEN /\ made' = "ok"
            /\ tiler' = [tile_size |-> tile_size_pair(tile_size),
                         max_iter |-> max_iter, level |-> level,
                         n_tiles |-> n_tiles, seed |-> seed,
                         check_tissue |-> check_tissue]
            /\ pc' = "idle"
       ELSE /\ made' = "AssertionError"
            /\ tiler' = NoTiler
            /\ pc' = "noobject"
\* tiler.py:120 reads wsi.tissue_box_coords_wsi, which wsi.py does not
\* define: the tissue box of the segmenter, tissue_box(wsi), computed from
\* the preview at the request (one segmentation per request)
tissue_box_coords_wsi(w) == w.tissue_box
\* variant: check_tissue is ignored, the box is always the whole level 0
box_coords_whole_slide(t, w) ==
    <<0, 0, get_dimensions(w, 0)[1], get_dimensions(w, 0)[2]>>

\* ------------------------------------------------------------- box geometry
\* RandomTiler.box_coords: the level-0 box tiles are drawn from
box_coords(t, w) ==
    IF t.check_tissue
    THEN tissue_box_coords_wsi(w)
    ELSE <<0, 0, get_dimensions(w, 0)[1], get_dimensions(w, 0)[2]>>

\* RandomTiler.box_coords_lvl: that box at the sampler's level
box_coords_lvl(t, w) ==
    IF t.level # 0
    THEN scale_coordinates(box_coords(t, w), get_dimensions(w, 0),
                           get_dimensions(w, t.level))
    ELSE box_coords(t, w)

\* bounds handed to the two np.random.randint calls of
\* _random_tile_coordinates
x_low(t, w) == box_coords_lvl(t, w)[1]
\* variant: the tile width is not taken off the upper bound
x_high_whole_box(t, w) == box_coords_lvl(t, w)[3]

x_high(t, w) == box_coords_lvl(t, w)[3] - (t.tile_size[1] + 1)
y_low(t, w) == box_coords_lvl(t, w)[2]
y_high(t, w) == box_coords_lvl(t, w)[4] - (t.tile_size[2] + 1)

\* RandomTiler._random_tile_coordinates once both draws returned: the drawn
\* box at the sampler's level, mapped to level 0
random_tile_coordinates(t, w, state) ==
    LET x_ul_lvl == randint(state, x_low(t, w), x_high(t, w))
        y_ul_lvl == randint(rng_advance(state), y_low(t, w), y_high(t, w))
        x_br_lvl == x_ul_lvl + t.tile_size[1]
        y_br_lvl == y_ul_lvl + t.tile_size[2]
    IN  scale_coordinates(<<x_ul_lvl, y_ul_lvl, x_br_lvl, y_br_lvl>>,
                          get_dimensions(w, t.level), get_dimensions(w, 0))

\* ------------------------------------------------------------ reading tiles
\* openslide read_region: the pixels found at a level-0 location
read_region(w, location, level, size) ==
    CASE w.content = "tissue" -> TissuePixels
      [] w.content = "blank" -> BlankPixels
      [] w.content = "stripes" ->
            IF location[1] % 2 = 0 THEN TissuePixels ELSE BlankPixels
      [] OTHER -> TissuePixels

\* openslide read_region fails on the damaged part of a file
read_region_raises(w, location, level, size) ==
    w.content = "damaged" /\ location[1] % 2 = 1

\* variant: the generator catches the error and goes on with the loop
after_read_error_retried(exc) == [pc |-> "test", err |-> "none"]

\* tiler.py:187 and 224: neither the generator nor extract handles an
\* exception of extract_tile, it leaves extract
after_read_error(exc) == [pc |-> "raised", err |-> exc]

\* WSI.extract_tile
extract_tile(w, coords, level) ==
    LET coords_level == scale_coordinates(coords, get_dimensions(w, 0),
                                          get_dimensions(w, level))
        h_l == coords_level[4] - coords_level[2]
        w_l == coords_level[3] - coords_level[1]
    IN  [coords |-> coords, level |-> level, size |-> <<w_l, h_l>>,
         pixels |-> read_region(w, <<coords[1], coords[2]>>, level,
                                <<w_l, h_l>>)]

\* --------------------------------------------------- Tile.has_enough_tissue
\* thresholds are fractions <<numerator, denominator>>
DefaultThreshold == <<8, 10>>
DefaultNearZeroVar == <<1, 10>>
\* variant: one of the two conditions is enough
is_almost_white_either(pixels) ==
    pixels.gray_mean > 900 \/ pixels.gray_std < 90

\* tile.py:59-61: mean > 0.9 and std < 0.09
is_almost_white(pixels) == pixels.gray_mean > 900 /\ pixels.gray_std < 90
\* variant: only a variance of exactly zero is rejected
var_below_zero_only(pixels, nzv) ==
    pixels.mask_ones * (pixels.mask_size - pixels.mask_ones) = 0

\* variant: the variance test never rejects
var_below_never(pixels, nzv) == FALSE

\* tile.py:79: np.var(image_bw_filled) < near_zero_var_threshold; the
\* variance of a 0/1 mask with k ones among n pixels is k(n-k)/n^2
var_below(pixels, near_zero_var_threshold) ==
    pixels.mask_ones * (pixels.mask_size - pixels.mask_ones)
            * near_zero_var_threshold[2]
        < near_zero_var_threshold[1] * pixels.mask_size * pixels.mask_size
\* variant: a fraction equal to the threshold passes
mean_above_or_equal(pixels, threshold) ==
    pixels.mask_ones * threshold[2] >= threshold[1] * pixels.mask_size

\* tile.py:82: np.mean(image_bw_filled) > threshold
mean_above(pixels, threshold) ==
    pixels.mask_ones * threshold[2] > threshold[1] * pixels.mask_size

\* Tile.has_enough_tissue(threshold, near_zero_var_threshold)
has_enough_tissue(t, threshold, near_zero_var_threshold) ==
    IF is_almost_white(t.pixels)
    THEN FALSE
    ELSE IF var_below(t.pixels, near_zero_var_threshold)
         THEN FALSE
         ELSE mean_above(t.pixels, threshold)

\* ------------------------------------------------------------ sampler steps
\* variant: the level is not checked
level_available_unchecked(level, w) == TRUE

\* tiler.py:218-220
level_available(level, w) == level \in levels(w)

\* tiler.py:189: the tile is yielded
accepts(check_tissue, t) ==
    ~check_tissue
        \/ has_enough_tissue(t, DefaultThreshold, DefaultNearZeroVar)

\* variant: only the n_tiles break exists
loop_breaks_on_target_only(t, iter, valid) == valid >= t.n_tiles

\* tiler.py:193-197: one of the two break statements is taken
loop_breaks(t, iter, valid) ==
    \/ (t.max_iter # 0 /\ iter > t.max_iter)
    \/ valid >= t.n_tiles

\* bookkeeping of finished extract calls: the first finished call fixes the
\* seed that is followed and the boxes it saved; later calls with that seed
\* are counted (up to 2).
Finished(boxes) ==
    IF runs.n = 0
    THEN [n |-> 1, seed |-> tiler.seed, boxes |-> boxes]
    ELSE IF runs.seed = tiler.seed /\ runs.n < 2
         THEN [runs EXCEPT !.n = 2]
         ELSE runs

IdlePcs == {"idle", "done", "raised"}

\* nothing has been constructed or called yet
SamplerStart ==
    /\ call = NoTiler
    /\ made = "none"
    /\ tiler = NoTiler
    /\ rng = 0
    /\ pc = "start"
    /\ err = "none"
    /\ iteration = 0
    /\ valid_tile_counter = 0
    /\ tile_wsi_coords = NoBox
    /\ box_coords_wsi = NoBox
    /\ tile = NoTile
    /\ tiles_counter = 0
    /\ tiles_counter_bound = FALSE
    /\ saved = <<>>
    /\ reported = -1
    /\ n_draws = 0
    /\ n_reads = 0
    /\ n_validations = 0
    /\ n_box_requests = 0
    /\ runs = [n |-> 0, seed |-> 0, boxes |-> <<>>]

\* values of the variables of a call that is not being made
NoScale == [reference_coords |-> NoBox, reference_size |-> <<1, 1>>,
            target_size |-> <<1, 1>>, out |-> NoBox, back |-> NoBox,
            pc |-> "off"]
NoSeg == [regions |-> <<>>, size_in |-> <<1, 1>>, size_out |-> <<1, 1>>,
          out |-> NoBox, err |-> "none", pc |-> "off"]
NoVal == [pixels |-> NoPixels, threshold |-> DefaultThreshold,
          near_zero_var_threshold |-> DefaultNearZeroVar, otsu |-> FALSE,
          result |-> FALSE, pc |-> "off"]
NoSamplers == <<>>
NoDl == [rows |-> <<>>, files |-> <<>>, n |-> 0, overwrite_mode |-> "skip",
         i |-> 0, pc |-> "off", err |-> "none", not_downloaded |-> <<>>,
         calls |-> 0, requested |-> <<>>, removed |-> {}, response |-> "none",
         succeeded |-> {}]
NoEnc == [has_column |-> TRUE, values |-> <<>>, given |-> FALSE,
          encoding_dictionary |-> <<>>, pc |-> "off", err |-> "none",
          encoded |-> <<>>, reversed |-> <<>>]
NoWsi == [level_dimensions |-> << <<8, 6>>, <<4, 3>> >>,
          tissue_box |-> <<1, 1, 7, 6>>, content |-> "tissue"]

Init ==
    /\ wsi \in [level_dimensions : Pyramids, tissue_box : TissueBoxes,
                content : Contents]
    /\ SamplerStart
    /\ sc = NoScale
    /\ seg = NoSeg
    /\ val = NoVal
    /\ samplers = NoSamplers
    /\ dl = NoDl
    /\ enc = NoEnc

\* svs_to_tiles.py:64-66: the sampler is constructed
NewTiler ==
    /\ pc = "start"
    /\ \E tile_size \in TileSizeArgs, n_tiles \in 0..MaxTiles, level \in 0..2,
          seed \in Seeds, check_tissue \in BOOLEAN, max_iter \in 0..MaxIterArg :
            RandomTiler(tile_size, n_tiles, level, seed, check_tissue, max_iter)
    /\ UNCHANGED <<wsiVars, sideVars, rng, err, genVars, consumerVars, countVars, runs>>

\* a further sampler with another seed and otherwise the same arguments
\* replaces the first
AnotherSeed ==
    /\ pc \in IdlePcs
    /\ made = "ok"
    /\ \E seed \in Seeds \ {tiler.seed} :
            RandomTiler(call.tile_size, call.n_tiles, call.level, seed,
                        call.check_tissue, call.max_iter)
    /\ UNCHANGED <<wsiVars, sideVars, rng, err, genVars, consumerVars, countVars, runs>>

\* some other code of the process draws from np.random
OtherDraw ==
    /\ pc \in IdlePcs
    /\ rng' = rng_advance(rng)
    /\ UNCHANGED <<wsiVars, sideVars, tilerVars, pc, err, genVars, consumerVars,
                   countVars, runs>>

\* RandomTiler.extract up to the creation of the generator (tiler.py:213-222)
Extract ==
    /\ pc \in IdlePcs
    /\ made = "ok"
    /\ rng' = np_random_seed(rng, tiler.seed)
    /\ iteration' = 0
    /\ valid_tile_counter' = 0
    /\ tile_wsi_coords' = NoBox
    /\ box_coords_wsi' = NoBox
    /\ tile' = NoTile
    /\ tiles_counter' = 0
    /\ tiles_counter_bound' = FALSE
    /\ saved' = <<>>
    /\ reported' = -1
    /\ n_draws' = 0
    /\ n_reads' = 0
    /\ n_validations' = 0
    /\ n_box_requests' = 0
    /\ IF level_available(tiler.level, wsi)
       THEN /\ pc' = "loop"
            /\ err' = "none"
            /\ runs' = runs
       ELSE \* the assertion message names the undefined `level`
            /\ pc' = "raised"
            /\ err' = "NameError"
            /\ runs' = Finished(<<>>)
    /\ UNCHANGED <<wsiVars, sideVars, tilerVars>>

\* tiler.py:183-185: a new iteration draws the candidate box
DrawCandidate ==
    /\ pc = "loop"
    /\ iteration <= MaxIterArg + 1   \* model bound; never binding, see C1
    /\ iteration' = iteration + 1
    /\ n_box_requests' = n_box_requests + (IF tiler.check_tissue THEN 1 ELSE 0)
    /\ box_coords_wsi' = box_coords(tiler, wsi)
    /\ IF randint_raises(x_low(tiler, wsi), x_high(tiler, wsi))
       THEN /\ pc' = "raised"
            /\ err' = "ValueError"
            /\ runs' = Finished(saved)
            /\ UNCHANGED <<rng, n_draws, tile_wsi_coords>>
       ELSE IF randint_raises(y_low(tiler, wsi), y_high(tiler, wsi))
       THEN /\ pc' = "raised"
            /\ err' = "ValueError"
            /\ runs' = Finished(saved)
            /\ rng' = rng_advance(rng)
            /\ n_draws' = n_draws + 1
            /\ UNCHANGED tile_wsi_coords
       ELSE /\ pc' = "read"
            /\ tile_wsi_coords' = random_tile_coordinates(tiler, wsi, rng)
            /\ rng' = rng_advance(rng_advance(rng))
            /\ n_draws' = n_draws + 2
            /\ UNCHANGED <<err, runs>>
    /\ UNCHANGED <<wsiVars, sideVars, tilerVars, valid_tile_counter, tile, consumerVars,
                   n_reads, n_validations>>

\* tiler.py:187: the candidate is read from the slide
ReadTile ==
    /\ pc = "read"
    /\ n_reads' = n_reads + 1
    /\ LET coords_level ==
                scale_coordinates(tile_wsi_coords, get_dimensions(wsi, 0),
                                  get_dimensions(wsi, tiler.level))
            size == <<coords_level[3] - coords_level[1],
                      coords_level[4] - coords_level[2]>>
       IN  IF read_region_raises(wsi, <<tile_wsi_coords[1], tile_wsi_coords[2]>>,
                                 tiler.level, size)
           THEN /\ pc' = after_read_error("OpenSlideError").pc
                /\ err' = after_read_error("OpenSlideError").err
                /\ runs' = IF after_read_error("OpenSlideError").pc = "raised"
                           THEN Finished(saved) ELSE runs
                /\ tile' = tile
           ELSE /\ pc' = "check"
                /\ tile' = extract_tile(wsi, tile_wsi_coords, tiler.level)
                /\ UNCHANGED <<err, runs>>
    /\ UNCHANGED <<wsiVars, sideVars, tilerVars, rng, iteration, valid_tile_counter,
                   tile_wsi_coords, box_coords_wsi, consumerVars, n_draws,
                   n_validations,
                   n_box_requests>>

\* tiler.py:189-190: the tile is yielded or dropped
CheckTile ==
    /\ pc = "check"
    /\ n_validations' = n_validations + (IF tiler.check_tissue THEN 1 ELSE 0)
    /\ pc' = IF accepts(tiler.check_tissue, tile) THEN "yield" ELSE "test"
    /\ UNCHANGED <<wsiVars, sideVars, tilerVars, rng, err, genVars, consumerVars,
                   n_draws, n_reads, n_box_requests, runs>>

\* tiler.py:224-227: the body of the for loop of extract saves the tile
SaveTile ==
    /\ pc = "yield"
    /\ tiles_counter' = Len(saved)
    /\ tiles_counter_bound' = TRUE
    /\ saved' = Append(saved, tile_wsi_coords)
    /\ pc' = "resume"
    /\ UNCHANGED <<wsiVars, sideVars, tilerVars, rng, err, genVars, reported, countVars,
                   runs>>

\* tiler.py:191: the generator is resumed
Resume ==
    /\ pc = "resume"
    /\ valid_tile_counter' = valid_tile_counter + 1
    /\ pc' = "test"
    /\ UNCHANGED <<wsiVars, sideVars, tilerVars, rng, err, iteration, tile_wsi_coords,
                   box_coords_wsi, tile, consumerVars, countVars, runs>>

\* tiler.py:193-197: the two break tests
LoopTest ==
    /\ pc = "test"
    /\ pc' = IF loop_breaks(tiler, iteration, valid_tile_counter)
             THEN "finish" ELSE "loop"
    /\ UNCHANGED <<wsiVars, sideVars, tilerVars, rng, err, genVars, consumerVars,
                   countVars, runs>>

\* tiler.py:228: the generator is exhausted, extract prints the count
Report ==
    /\ pc = "finish"
    /\ IF tiles_counter_bound
       THEN /\ reported' = tiles_counter
            /\ pc' = "done"
            /\ err' = "none"
       ELSE \* tiles_counter was never bound by the for loop
            /\ reported' = reported
            /\ pc' = "raised"
            /\ err' = "UnboundLocalError"
    /\ runs' = Finished(saved)
    /\ UNCHANGED <<wsiVars, sideVars, tilerVars, rng, genVars, tiles_counter,
                   tiles_counter_bound, saved, countVars>>

ExtractStep ==
    DrawCandidate \/ ReadTile \/ CheckTile \/ SaveTile \/ Resume \/ LoopTest
        \/ Report

Next ==
    \/ NewTiler
    \/ AnotherSeed
    \/ OtherDraw
    \/ Extract
    \/ DrawCandidate
    \/ ReadTile
    \/ CheckTile
    \/ SaveTile
    \/ Resume
    \/ LoopTest
    \/ Report

Spec == Init /\ [][Next]_vars

\* one sampler is constructed and extract is called on it again and again
LiveNext ==
    \/ NewTiler
    \/ Extract
    \/ DrawCandidate
    \/ ReadTile
    \/ CheckTile
    \/ SaveTile
    \/ Resume
    \/ LoopTest
    \/ Report

\* extract runs to its end once called: the generator and the for loop that
\* consumes it are one thread
LiveSpec == Init /\ [][LiveNext]_vars /\ WF_vars(ExtractStep)

\* ------------------------------------------------- scale_coordinates alone
\* boxes with x_ul < x_br and y_ul < y_br
ScaleBoxes ==
    {b \in (0..MaxCoord) \X (0..MaxCoord) \X (0..MaxCoord) \X (0..MaxCoord) :
        b[1] < b[3] /\ b[2] < b[4]}

\* (width, height) pairs
ScaleDims == (1..MaxDim) \X (1..MaxDim)

ScaleInit ==
    /\ wsi = NoWsi
    /\ SamplerStart
    /\ sc \in [reference_coords : ScaleBoxes, reference_size : ScaleDims,
               target_size : ScaleDims, out : {NoBox}, back : {NoBox},
               pc : {"call"}]
    /\ seg = NoSeg
    /\ val = NoVal
    /\ samplers = NoSamplers
    /\ dl = NoDl
    /\ enc = NoEnc

\* utils.py:8-37: scale_coordinates(reference_coords, reference_size,
\* target_size) returns a new CoordinatePair
ScaleCall ==
    /\ sc.pc = "call"
    /\ sc' = [sc EXCEPT
                !.out = scale_coordinates(sc.reference_coords,
                                          sc.reference_size, sc.target_size),
                !.pc = "returned"]
    /\ UNCHANGED <<dl, enc, wsi, call, made, tiler, rng, pc, err, genVars, consumerVars,
                   countVars, runs, seg, val, samplers>>

\* the result scaled back from target_size to reference_size, as
\* WSI.extract_tile (wsi.py:188-194) does with the box that
\* _random_tile_coordinates (tiler.py:256-260) scaled to level 0
ScaleBack ==
    /\ sc.pc = "returned"
    /\ sc' = [sc EXCEPT
                !.back = scale_coordinates(sc.out, sc.target_size,
                                           sc.reference_size),
                !.pc = "back"]
    /\ UNCHANGED <<dl, enc, wsi, call, made, tiler, rng, pc, err, genVars, consumerVars,
                   countVars, runs, seg, val, samplers>>

ScaleNext ==
    \/ ScaleCall
    \/ ScaleBack

ScaleSpec == ScaleInit /\ [][ScaleNext]_vars

\* ---------------------------------------------- calculate_tissue_region alone
\* what regionprops gives for one labeled component of the preview:
\* its pixel area and its bbox (min_row, min_col, max_row, max_col)
RegionProps ==
    { [area |-> 1, bbox |-> <<0, 0, 1, 1>>],
      [area |-> 4, bbox |-> <<1, 1, 3, 3>>],
      [area |-> 4, bbox |-> <<0, 2, 2, 4>>],
      [area |-> 2, bbox |-> <<2, 0, 3, 2>>] }

\* the components the labeling finds, in label order; none for a preview
\* without foreground
LabeledRegionProperties ==
    UNION { [1..n -> RegionProps] : n \in 0..MaxRegions }

\* (w_in, h_in) of the preview and (w_out, h_out) of level 0
PreviewSizes == { <<4, 3>>, <<4, 4>> }
Level0Sizes == { <<8, 6>>, <<9, 7>>, <<7, 7>> }

\* wsi.py:148: max(regions, key=lambda r: r.area), the first of the regions
\* of greatest area
biggest_region(regions) ==
    regions[CHOOSE i \in 1..Len(regions) :
                /\ \A j \in 1..Len(regions) : regions[j].area <= regions[i].area
                /\ \A j \in 1..(i - 1) : regions[j].area < regions[i].area]

\* variant: the bbox is taken as (x_ul, y_ul, x_br, y_br) without reordering
calculate_tissue_region_unswapped(labeled_region_properties, size_in, size_out) ==
    LET regions == [i \in 1..Len(labeled_region_properties) |->
                        [index |-> i - 1,
                         area |-> labeled_region_properties[i].area,
                         bbox |-> labeled_region_properties[i].bbox]]
    IN  IF regions = <<>>
        THEN [err |-> "ValueError", box |-> NoBox]
        ELSE [err |-> "none",
              box |-> scale_coordinates(biggest_region(regions).bbox,
                                        size_in, size_out)]

\* variant: a preview without components gives the box of the whole slide
calculate_tissue_region_whole_slide(labeled_region_properties, size_in, size_out) ==
    LET regions == [i \in 1..Len(labeled_region_properties) |->
                        [index |-> i - 1,
                         area |-> labeled_region_properties[i].area,
                         bbox |-> labeled_region_properties[i].bbox]]
    IN  IF regions = <<>>
        THEN [err |-> "none", box |-> <<0, 0, size_out[1], size_out[2]>>]
        ELSE LET bbox == biggest_region(regions).bbox
             IN  [err |-> "none",
                  box |-> scale_coordinates(
                              <<bbox[2], bbox[1], bbox[4], bbox[3]>>,
                              size_in, size_out)]

\* wsi.py:140-156: the regions list, its biggest region, the bbox reordered
\* from (y_ul, x_ul, y_br, x_br) and scaled from the preview to level 0.
\* max() of an empty list raises ValueError.
calculate_tissue_region(labeled_region_properties, size_in, size_out) ==
    LET regions == [i \in 1..Len(labeled_region_properties) |->
                        [index |-> i - 1,
                         area |-> labeled_region_properties[i].area,
                         bbox |-> labeled_region_properties[i].bbox]]
    IN  IF regions = <<>>
        THEN [err |-> "ValueError", box |-> NoBox]
        ELSE LET bbox == biggest_region(regions).bbox
             IN  [err |-> "none",
                  box |-> scale_coordinates(
                              <<bbox[2], bbox[1], bbox[4], bbox[3]>>,
                              size_in, size_out)]

SegInit ==
    /\ wsi = NoWsi
    /\ SamplerStart
    /\ sc = NoScale
    /\ seg \in [regions : LabeledRegionProperties, size_in : PreviewSizes,
                size_out : Level0Sizes, out : {NoBox}, err : {"none"},
                pc : {"call"}]
    /\ val = NoVal
    /\ samplers = NoSamplers
    /\ dl = NoDl
    /\ enc = NoEnc

\* wsi.py:105-163: one call of calculate_tissue_region; it returns the box
\* or ends with the exception
SegCall ==
    /\ seg.pc = "call"
    /\ LET r == calculate_tissue_region(seg.regions, seg.size_in, seg.size_out)
       IN  seg' = [seg EXCEPT
                     !.out = r.box,
                     !.err = r.err,
                     !.pc = IF r.err = "none" THEN "returned" ELSE "raised"]
    /\ UNCHANGED <<dl, enc, wsi, call, made, tiler, rng, pc, err, genVars, consumerVars,
                   countVars, runs, sc, val, samplers>>

SegNext == SegCall

SegSpec == SegInit /\ [][SegNext]_vars

\* ------------------------------------------------- has_enough_tissue alone
\* grayscale mean and standard deviation in thousandths, around the limits
\* of the full-white test
GrayMeans == {500, 900, 901, 950}
GrayStds == {20, 89, 90, 200}

\* the filled mask: its number of pixels and how many of them are 1
TilePixels ==
    {p \in [gray_mean : GrayMeans, gray_std : GrayStds,
            mask_size : 1..MaxMaskSize, mask_ones : 0..MaxMaskSize] :
        p.mask_ones <= p.mask_size}

\* arguments as <<numerator, denominator>>, the defaults among them
Thresholds == {DefaultThreshold, <<1, 2>>}
NearZeroVarThresholds == {DefaultNearZeroVar, <<4, 25>>}

TileInit ==
    /\ wsi = NoWsi
    /\ SamplerStart
    /\ sc = NoScale
    /\ seg = NoSeg
    /\ val \in [pixels : TilePixels, threshold : Thresholds,
                near_zero_var_threshold : NearZeroVarThresholds,
                otsu : {FALSE}, result : {FALSE}, pc : {"call"}]
    /\ samplers = NoSamplers
    /\ dl = NoDl
    /\ enc = NoEnc

\* tile.py:56-62: grayscale statistics and the full-white test
ValFullWhite ==
    /\ val.pc = "call"
    /\ val' = IF is_almost_white(val.pixels)
              THEN [val EXCEPT !.result = FALSE, !.pc = "returned"]
              ELSE [val EXCEPT !.pc = "otsu"]
    /\ UNCHANGED <<dl, enc, wsi, call, made, tiler, rng, pc, err, genVars, consumerVars,
                   countVars, runs, sc, seg, samplers>>

\* tile.py:65-75: Otsu threshold, dilation and hole filling give the mask
ValMorphology ==
    /\ val.pc = "otsu"
    /\ val' = [val EXCEPT !.otsu = TRUE, !.pc = "mask"]
    /\ UNCHANGED <<dl, enc, wsi, call, made, tiler, rng, pc, err, genVars, consumerVars,
                   countVars, runs, sc, seg, samplers>>

\* tile.py:79-82: the variance test, then the comparison of the mean
ValDecide ==
    /\ val.pc = "mask"
    /\ val' = [val EXCEPT
                 !.result = IF var_below(val.pixels, val.near_zero_var_threshold)
                            THEN FALSE
                            ELSE mean_above(val.pixels, val.threshold),
                 !.pc = "returned"]
    /\ UNCHANGED <<dl, enc, wsi, call, made, tiler, rng, pc, err, genVars, consumerVars,
                   countVars, runs, sc, seg, samplers>>

TileNext ==
    \/ ValFullWhite
    \/ ValMorphology
    \/ ValDecide

TileSpec == TileInit /\ [][TileNext]_vars

\* ------------------------------------------- two samplers in one process
\* svs_to_tiles.py:62-67 builds one WSI and one RandomTiler per slide; here
\* two of them run extract in two threads of one interpreter, where
\* np.random is the one generator of the process (variable rng).
PairTilers ==
    [tile_size : {<<1, 1>>}, max_iter : {PairTiles + 1}, level : {0},
     n_tiles : {PairTiles}, seed : Seeds, check_tissue : BOOLEAN]

PairSlides ==
    { [level_dimensions |-> << <<8, 6>>, <<4, 3>> >>,
       tissue_box |-> <<1, 1, 7, 6>>, content |-> "tissue"],
      [level_dimensions |-> << <<7, 7>>, <<3, 3>> >>,
       tissue_box |-> <<1, 1, 7, 6>>, content |-> "stripes"] }

PairInit ==
    /\ wsi = NoWsi
    /\ SamplerStart
    /\ sc = NoScale
    /\ seg = NoSeg
    /\ val = NoVal
    /\ samplers \in [1..2 -> [tiler : PairTilers, wsi : PairSlides,
                              pc : {"idle"}, iteration : {0},
                              valid_tile_counter : {0},
                              tile_wsi_coords : {NoBox}, saved : {<<>>}]]
    /\ dl = NoDl
    /\ enc = NoEnc

\* tiler.py:213-222: extract seeds the generator of the process and starts
\* the loop
PairExtract(i) ==
    /\ samplers[i].pc = "idle"
    /\ level_available(samplers[i].tiler.level, samplers[i].wsi)
    /\ rng' = np_random_seed(rng, samplers[i].tiler.seed)
    /\ samplers' = [samplers EXCEPT ![i].pc = "loop"]
    /\ UNCHANGED <<dl, enc, wsi, call, made, tiler, pc, err, genVars, consumerVars,
                   countVars, runs, sc, seg, val>>

\* tiler.py:183-184, 247-252: one iteration draws x and y from the generator
\* of the process
PairDraw(i) ==
    /\ samplers[i].pc = "loop"
    /\ ~randint_raises(x_low(samplers[i].tiler, samplers[i].wsi),
                       x_high(samplers[i].tiler, samplers[i].wsi))
    /\ ~randint_raises(y_low(samplers[i].tiler, samplers[i].wsi),
                       y_high(samplers[i].tiler, samplers[i].wsi))
    /\ samplers' = [samplers EXCEPT
                      ![i].iteration = @ + 1,
                      ![i].tile_wsi_coords =
                          random_tile_coordinates(samplers[i].tiler,
                                                  samplers[i].wsi, rng),
                      ![i].pc = "read"]
    /\ rng' = rng_advance(rng_advance(rng))
    /\ UNCHANGED <<dl, enc, wsi, call, made, tiler, pc, err, genVars, consumerVars,
                   countVars, runs, sc, seg, val>>

\* tiler.py:185-197, 224-227: read the tile, save it when it is accepted,
\* then test the two break conditions
PairRead(i) ==
    /\ samplers[i].pc = "read"
    /\ LET me == samplers[i]
           t == extract_tile(me.wsi, me.tile_wsi_coords, me.tiler.level)
           ok == accepts(me.tiler.check_tissue, t)
           valid == me.valid_tile_counter + (IF ok THEN 1 ELSE 0)
       IN  samplers' = [samplers EXCEPT
                          ![i].saved = IF ok THEN Append(@, me.tile_wsi_coords)
                                       ELSE @,
                          ![i].valid_tile_counter = valid,
                          ![i].pc = IF loop_breaks(me.tiler, me.iteration, valid)
                                    THEN "done" ELSE "loop"]
    /\ UNCHANGED <<dl, enc, wsi, call, made, tiler, rng, pc, err, genVars, consumerVars,
                   countVars, runs, sc, seg, val>>

PairNext ==
    \E i \in 1..2 :
        \/ PairExtract(i)
        \/ PairDraw(i)
        \/ PairRead(i)

PairSpec == PairInit /\ [][PairNext]_vars

\* the boxes extract saves when no other code touches the generator:
\* tiler.py:181-197 run from the state np.random.seed(seed) leaves
RECURSIVE alone_run(_, _, _, _, _, _)
alone_run(t, w, state, iter, valid, acc) ==
    LET coords == random_tile_coordinates(t, w, state)
        ok == accepts(t.check_tissue, extract_tile(w, coords, t.level))
        acc2 == IF ok THEN Append(acc, coords) ELSE acc
        valid2 == valid + (IF ok THEN 1 ELSE 0)
    IN  IF loop_breaks(t, iter + 1, valid2)
        THEN acc2
        ELSE alone_run(t, w, rng_advance(rng_advance(state)), iter + 1,
                       valid2, acc2)

alone(t, w) == alone_run(t, w, np_random_seed(0, t.seed), 0, 0, <<>>)

\* ------------------------------------------------------ TCGAWSIDownloader
\* wsi_downloader.py.  dl.files is the output folder (per filename "absent",
\* "old" for a file that was there before, "new" for a downloaded one);
\* the remote answers each request with "ok", a RequestException or a
\* response without Content-Disposition (KeyError).  dl.succeeded holds the
\* uuids whose latest request was answered "ok", dl.requested and dl.removed
\* the requests made and the files removed by the current call.
Uuids == {"uuid-a", "uuid-b"}
Filenames == {"a.svs", "b.svs"}
OverwriteModes == {"strict", "overwrite", "skip", "replace"}
Responses == {"ok", "RequestException", "KeyError"}

\* the metadata CSV: rows of uuid and filename, each uuid and filename once
MetadataRows ==
    {r \in UNION { [1..k -> [uuid : Uuids, filename : Filenames]] :
                        k \in 0..MaxRows } :
        \A a, b \in 1..Len(r) :
            a # b => r[a].uuid # r[b].uuid /\ r[a].filename # r[b].filename}

\* wsi_downloader.py:106
overwrite_mode_ok(overwrite_mode) ==
    overwrite_mode \in {"strict", "overwrite", "skip"}

\* variant: strict is treated as skip
on_existing_never_raises(overwrite_mode) ==
    IF overwrite_mode = "overwrite" THEN "remove" ELSE "continue"

\* wsi_downloader.py:122-130: what is done about an output file that exists
on_existing(overwrite_mode) ==
    IF overwrite_mode = "strict" THEN "raise"
    ELSE IF overwrite_mode = "overwrite" THEN "remove"
    ELSE "continue"

\* wsi_downloader.py:133: the exceptions the loop catches
download_fails(response) == response \in {"RequestException", "KeyError"}

\* wsi_downloader.py:112-115: the loop is over, by exhaustion or by n
rows_done(d) == d.i >= Len(d.rows) \/ (d.n # 0 /\ d.i = d.n)

DlInit ==
    /\ wsi = NoWsi
    /\ SamplerStart
    /\ sc = NoScale
    /\ seg = NoSeg
    /\ val = NoVal
    /\ samplers = NoSamplers
    /\ enc = NoEnc
    /\ dl \in [rows : MetadataRows, files : [Filenames -> {"absent", "old"}],
               n : {0}, overwrite_mode : {"skip"}, i : {0}, pc : {"idle"},
               err : {"none"}, not_downloaded : {<<>>}, calls : {0},
               requested : {<<>>}, removed : {{}}, response : {"none"},
               succeeded : {{}}]

\* wsi_downloader.py:83-111: download(n, overwrite_mode) is called
DlDownload(n, overwrite_mode) ==
    /\ dl.pc \in {"idle", "done", "raised"}
    /\ dl.calls < MaxCalls
    /\ dl' = [dl EXCEPT
                !.n = n,
                !.overwrite_mode = overwrite_mode,
                !.i = 0,
                !.calls = @ + 1,
                !.requested = <<>>,
                !.removed = {},
                !.response = "none",
                !.err = IF overwrite_mode_ok(overwrite_mode)
                        THEN "none" ELSE "ValueError",
                !.pc = IF overwrite_mode_ok(overwrite_mode)
                       THEN "row" ELSE "raised"]
    /\ UNCHANGED <<enc, wsi, call, made, tiler, rng, pc, err, genVars,
                   consumerVars, countVars, runs, sc, seg, val, samplers>>

\* wsi_downloader.py:112-130: the next row, and the output file if it exists
DlRow ==
    /\ dl.pc = "row"
    /\ IF rows_done(dl)
       THEN dl' = [dl EXCEPT !.pc = "done"]
       ELSE LET filename == dl.rows[dl.i + 1].filename
                exists == dl.files[filename] # "absent"
                what == on_existing(dl.overwrite_mode)
            IN  IF exists /\ what = "raise"
                THEN dl' = [dl EXCEPT !.pc = "raised",
                                      !.err = "FileExistsError"]
                ELSE IF exists /\ what = "continue"
                THEN dl' = [dl EXCEPT !.i = @ + 1]
                ELSE IF exists
                THEN dl' = [dl EXCEPT !.files[filename] = "absent",
                                      !.removed = @ \cup {filename},
                                      !.pc = "fetch"]
                ELSE dl' = [dl EXCEPT !.pc = "fetch"]
    /\ UNCHANGED <<enc, wsi, call, made, tiler, rng, pc, err, genVars,
                   consumerVars, countVars, runs, sc, seg, val, samplers>>

\* wsi_downloader.py:131-136 and 65-81: the request for the row; the file is
\* written when the response has its Content-Disposition, else the uuid is
\* appended to not_downloaded
DlFetch ==
    /\ dl.pc = "fetch"
    /\ \E response \in Responses :
        LET row == dl.rows[dl.i + 1]
        IN  dl' = [dl EXCEPT
                     !.requested = Append(@, row.uuid),
                     !.response = response,
                     !.files[row.filename] =
                         IF download_fails(response) THEN @ ELSE "new",
                     !.succeeded =
                         IF download_fails(response) THEN @ \ {row.uuid}
                         ELSE @ \cup {row.uuid},
                     !.not_downloaded =
                         IF download_fails(response) THEN Append(@, row.uuid)
                         ELSE @,
                     !.i = @ + 1,
                     !.pc = "row"]
    /\ UNCHANGED <<enc, wsi, call, made, tiler, rng, pc, err, genVars,
                   consumerVars, countVars, runs, sc, seg, val, samplers>>

DlNext ==
    \/ \E n \in 0..MaxRows, overwrite_mode \in OverwriteModes :
            DlDownload(n, overwrite_mode)
    \/ DlRow
    \/ DlFetch

DlSpec == DlInit /\ [][DlNext]_vars

\* ----------------------------------------------------------- encode_label
\* labels.py.  The column is the sequence of its values; a dictionary is a
\* function from its keys to the codes (one code per key).
Labels == {"a", "b", "c"}
Codes == 0..2

ColumnValues == UNION { [1..k -> Labels] : k \in 0..MaxColumn }

EncodingDictionaries ==
    {d \in UNION { [keys -> Codes] : keys \in SUBSET Labels } :
        \A a, b \in DOMAIN d : a # b => d[a] # d[b]}

\* labels.py:4-24
reverse_dict(dictionary) ==
    [i \in {dictionary[value] : value \in DOMAIN dictionary} |->
        CHOOSE value \in DOMAIN dictionary : dictionary[value] = i]

\* labels.py:73-75: each value mapped to its rank in order of appearance
default_encoding(values) ==
    [v \in {values[k] : k \in 1..Len(values)} |->
        LET first == CHOOSE k \in 1..Len(values) :
                        /\ values[k] = v
                        /\ \A j \in 1..(k - 1) : values[j] # v
        IN  Cardinality({values[j] : j \in 1..(first - 1)})]

\* labels.py:59-82; `given` is false for encoding_dictionary=None.  An
\* empty dictionary is falsy, and `>` between sets is "proper superset".
encode_label(has_column, values, given, encoding_dictionary) ==
    LET values_to_encode == {values[k] : k \in 1..Len(values)}
        keys == DOMAIN encoding_dictionary
        truthy == given /\ keys # {}
        used == IF truthy THEN encoding_dictionary
                ELSE default_encoding(values)
    IN  IF ~has_column
        THEN [err |-> "ValueError", encoded |-> <<>>, reversed |-> <<>>]
        ELSE IF truthy /\ keys \subseteq values_to_encode
                       /\ keys # values_to_encode
        THEN [err |-> "ValueError", encoded |-> <<>>, reversed |-> <<>>]
        ELSE IF \E v \in values_to_encode : v \notin DOMAIN used
        THEN [err |-> "KeyError", encoded |-> <<>>, reversed |-> <<>>]
        ELSE [err |-> "none",
              encoded |-> [k \in 1..Len(values) |-> used[values[k]]],
              reversed |-> reverse_dict(used)]

EncInit ==
    /\ wsi = NoWsi
    /\ SamplerStart
    /\ sc = NoScale
    /\ seg = NoSeg
    /\ val = NoVal
    /\ samplers = NoSamplers
    /\ dl = NoDl
    /\ enc \in [has_column : BOOLEAN, values : ColumnValues, given : BOOLEAN,
                encoding_dictionary : EncodingDictionaries, pc : {"call"},
                err : {"none"}, encoded : {<<>>}, reversed : {<<>>}]
    /\ (~enc.given => enc.encoding_dictionary = <<>>)

\* labels.py:27-82: one call of encode_label
EncCall ==
    /\ enc.pc = "call"
    /\ LET r == encode_label(enc.has_column, enc.values, enc.given,
                             enc.encoding_dictionary)
       IN  enc' = [enc EXCEPT
                     !.err = r.err,
                     !.encoded = r.encoded,
                     !.reversed = r.reversed,
                     !.pc = IF r.err = "none" THEN "returned" ELSE "raised"]
    /\ UNCHANGED <<dl, wsi, call, made, tiler, rng, pc, err, genVars,
                   consumerVars, countVars, runs, sc, seg, val, samplers>>

EncNext == EncCall

EncSpec == EncInit /\ [][EncNext]_vars

\* =================================================================== claims

C2_MaxIterCapsAttempts ==
    (made = "ok" /\ tiler.n_tiles >= 1) => n_reads <= tiler.max_iter

\* ---------------------------------------------------------------------- C3
\* C3: for every n_tiles the constructor accepts, the tiles yielded in one
\* extract call never exceed n_tiles, and when the loop is left by the
\* n_tiles break exactly n_tiles tiles were yielded.
C3_AtMostNTiles ==
    made = "ok" =>
        /\ Len(saved) <= tiler.n_tiles
        /\ (pc = "finish" /\ ~(tiler.max_iter # 0 /\ iteration > tiler.max_iter)
                => Len(saved) = tiler.n_tiles)

\* ---------------------------------------------------------------------- C4
\* C4: an extract call with the seed of the first finished call saves the
\* same ordered sequence of level-0 boxes as that call did, whatever extract
\* calls and other draws happened in between.
C4_Deterministic ==
    (pc \in {"done", "raised"} /\ runs.n >= 1 /\ runs.seed = tiler.seed)
        => saved = runs.boxes

\* a second call with the followed seed has ended with two different boxes
C4_Witness ==
    /\ pc = "done"
    /\ runs.n = 2
    /\ runs.seed = tiler.seed
    /\ Len(saved) >= 2
    /\ saved[1] # saved[2]

\* ---------------------------------------------------------------------- C5
\* C5: with check_tissue=False has_enough_tissue is never called, after each
\* completed iteration the accepted count equals the attempt count, and the
\* loop is left after exactly n_tiles attempts.
C5_NoCheckAcceptsAll ==
    (made = "ok" /\ ~tiler.check_tissue) =>
        /\ n_validations = 0
        /\ (pc \in {"test", "loop", "finish", "done"}
                => valid_tile_counter = iteration)
        /\ (pc \in {"finish", "done"} => iteration = tiler.n_tiles)

\* ---------------------------------------------------------------------- C6
\* C6: when the attempts exceeded max_iter before n_tiles tiles were
\* accepted (and every read succeeded), extract returns without an
\* exception, also when no tile was accepted.
C6_PartialIsNoError ==
    (/\ pc \in {"done", "raised"}
     /\ err # "OpenSlideError"
     /\ n_reads = iteration
     /\ iteration > tiler.max_iter
     /\ valid_tile_counter < tiler.n_tiles) => err = "none"

\* ---------------------------------------------------------------------- C7
\* C7: the count extract reports when it ends is the number of tiles it
\* saved (stated for the documented range n_tiles >= 1).
C7_ReportsSavedCount ==
    (pc = "done" /\ tiler.n_tiles >= 1) => reported = Len(saved)

\* ---------------------------------------------------------------------- C8
\* C8: for a well-formed tile_size, RandomTiler(...) with max_iter < n_tiles
\* raises and leaves no sampler, and with max_iter >= n_tiles it returns a
\* sampler that holds the arguments.
C8_ConstructorCheck ==
    (made # "none" /\ Len(call.tile_size) \in {1, 2}) =>
        /\ (call.max_iter < call.n_tiles =>
                made = "AssertionError" /\ pc = "noobject" /\ tiler = NoTiler)
        /\ (call.max_iter >= call.n_tiles =>
                /\ made = "ok"
                /\ tiler.n_tiles = call.n_tiles
                /\ tiler.max_iter = call.max_iter)

\* the constructor has refused max_iter < n_tiles
C8_Witness ==
    /\ made = "AssertionError"
    /\ Len(call.tile_size) = 2
    /\ call.max_iter < call.n_tiles

C10_SmallBoxFailsFast ==
    (/\ made = "ok"
     /\ tiler.level \in 0..(Len(wsi.level_dimensions) - 1)
     /\ pc \notin {"idle"}
     /\ LET box == box_coords_lvl(tiler, wsi)
        IN  \/ box[3] - box[1] < tiler.tile_size[1]
            \/ box[4] - box[2] < tiler.tile_size[2]) =>
        /\ n_reads = 0
        /\ saved = <<>>
        /\ pc \in {"loop", "raised"}
        /\ (pc = "raised" => err = "ValueError")

\* the box is wide enough but too low: the x draw returned, the y draw raised
C10_Witness ==
    /\ pc = "raised"
    /\ err = "ValueError"
    /\ n_draws = 1
    /\ LET box == box_coords_lvl(tiler, wsi)
       IN  box[4] - box[2] < tiler.tile_size[2]

\* --------------------------------------------------------------------- C11
\* C11: every box saved, in level-0 coordinates, lies inside the level-0
\* sampling box (the tissue box with check_tissue, the whole level 0
\* without), at every valid level of the sampler.
C11_YieldedInsideBox ==
    (made = "ok" /\ tiler.level \in 0..(Len(wsi.level_dimensions) - 1)) =>
        \A i \in 1..Len(saved) :
            LET box == IF tiler.check_tissue
                       THEN wsi.tissue_box
                       ELSE <<0, 0, wsi.level_dimensions[1][1],
                              wsi.level_dimensions[1][2]>>
            IN  /\ box[1] <= saved[i][1]
                /\ box[2] <= saved[i][2]
                /\ saved[i][3] <= box[3]
                /\ saved[i][4] <= box[4]

\* --------------------------------------------------------------------- C12
\* C12: the region asked of the reader has exactly the width and height
\* tile_size at the sampler's level, at every valid level.
C12_ReadSizeIsTileSize ==
    (made = "ok" /\ pc \in {"check", "yield", "resume", "test"}) =>
        tile.size = tiler.tile_size

\* --------------------------------------------------------------------- C20
\* C20: a read that fails ends extract with the reader's exception; from
\* then on, until extract is called again, nothing is drawn, read or saved,
\* and the tiles saved before the failure stay saved; no tile is ever
\* produced from a location the reader fails on.
C20_ReadErrorPropagates ==
    [][ /\ (pc = "read" /\ wsi.content = "damaged"
                /\ tile_wsi_coords[1] % 2 = 1) =>
            /\ pc' = "raised"
            /\ err' = "OpenSlideError"
            /\ saved' = saved
            /\ n_draws' = n_draws
        /\ (pc = "raised" /\ err = "OpenSlideError") =>
            \/ /\ saved' = saved
               /\ n_draws' = n_draws
               /\ n_reads' = n_reads
               /\ err' = err
            \/ /\ pc' \in {"loop", "raised"}
               /\ saved' = <<>>
               /\ n_reads' = 0
      ]_vars

\* a read has failed after one tile had been saved
C20_Witness ==
    /\ pc = "raised"
    /\ err = "OpenSlideError"
    /\ Len(saved) = 1
    /\ n_reads = 2

\* --------------------------------------------------------------------- C13
\* C13: each coordinate scale_coordinates returns is floor(c * to / from),
\* with the widths for the x coordinates and the heights for the y
\* coordinates, and the call leaves its arguments as they were.
C13_ScaleIsFloor ==
    /\ [](sc.pc = "returned" =>
            \A i \in 1..4 :
                LET a == IF i \in {1, 3} THEN 1 ELSE 2
                    c == sc.reference_coords[i]
                IN  /\ sc.out[i] * sc.reference_size[a] <= c * sc.target_size[a]
                    /\ c * sc.target_size[a]
                            < (sc.out[i] + 1) * sc.reference_size[a])
    /\ [][sc.pc = "call" =>
            /\ sc'.reference_coords = sc.reference_coords
            /\ sc'.reference_size = sc.reference_size
            /\ sc'.target_size = sc.target_size]_vars

\* a call has returned a coordinate whose exact quotient is not an integer
C13_Witness ==
    /\ sc.pc = "returned"
    /\ (sc.reference_coords[3] * sc.target_size[1]) % sc.reference_size[1] # 0
    /\ sc.reference_size[1] # sc.reference_size[2]

\* --------------------------------------------------------------------- C14
\* C14: scaling with to_dimensions equal to from_dimensions returns the box
\* unchanged.
C14_ScaleIdentity ==
    (sc.pc = "returned" /\ sc.target_size = sc.reference_size)
        => sc.out = sc.reference_coords

\* an identity scaling has returned, for dimensions larger than 1 that the
\* coordinates are no multiples of
C14_Witness ==
    /\ sc.pc = "returned"
    /\ sc.target_size = sc.reference_size
    /\ sc.reference_size[1] > 1
    /\ sc.reference_coords[3] % sc.reference_size[1] # 0

\* --------------------------------------------------------------------- C15
\* C15: for a box inside the source extent no coordinate returned is greater
\* than the matching component of to_dimensions.
C15_ScaleStaysInside ==
    (/\ sc.pc = "returned"
     /\ sc.reference_coords[3] <= sc.reference_size[1]
     /\ sc.reference_coords[4] <= sc.reference_size[2]) =>
        /\ sc.out[1] <= sc.target_size[1]
        /\ sc.out[3] <= sc.target_size[1]
        /\ sc.out[2] <= sc.target_size[2]
        /\ sc.out[4] <= sc.target_size[2]

\* a box that touches the right edge of the source was scaled down onto the
\* right edge of a narrower target
C15_Witness ==
    /\ sc.pc = "returned"
    /\ sc.reference_coords[3] = sc.reference_size[1]
    /\ sc.reference_coords[4] <= sc.reference_size[2]
    /\ sc.target_size[1] < sc.reference_size[1]
    /\ sc.out[3] = sc.target_size[1]

\* --------------------------------------------------------------------- C16
\* C16: when the labeling of the preview finds no component,
\* calculate_tissue_region ends with an error and returns no box, the
\* whole-slide box included.
C16_NoComponentIsError ==
    (seg.pc # "call" /\ seg.pc # "off" /\ Len(seg.regions) = 0) =>
        /\ seg.pc = "raised"
        /\ seg.err # "none"
        /\ seg.out = NoBox
        /\ seg.out # <<0, 0, seg.size_out[1], seg.size_out[2]>>

\* a call on a preview without components has ended with ValueError
C16_Witness ==
    /\ seg.pc = "raised"
    /\ Len(seg.regions) = 0
    /\ seg.err = "ValueError"

\* --------------------------------------------------------------------- C17
\* C17: with threshold 0.8 and near_zero_var_threshold 0.1 has_enough_tissue
\* rejects a tile whose filled mask is all 0 and a tile whose filled mask is
\* all 1.
C17_UniformMaskRejected ==
    (/\ val.pc = "returned"
     /\ val.threshold = <<8, 10>>
     /\ val.near_zero_var_threshold = <<1, 10>>
     /\ val.pixels.mask_ones \in {0, val.pixels.mask_size})
        => val.result = FALSE

\* a tile that passed the full-white test and whose filled mask is all 1 was
\* rejected under the defaults
C17_Witness ==
    /\ val.pc = "returned"
    /\ val.otsu
    /\ val.threshold = <<8, 10>>
    /\ val.near_zero_var_threshold = <<1, 10>>
    /\ val.pixels.mask_size > 1
    /\ val.pixels.mask_ones = val.pixels.mask_size
    /\ val.result = FALSE

C19_InterleavedAsAlone ==
    \A i \in DOMAIN samplers :
        (/\ samplers[i].pc = "done"
         /\ \A j \in DOMAIN samplers \ {i} :
                samplers[j].tiler.seed # samplers[i].tiler.seed)
            => samplers[i].saved = alone(samplers[i].tiler, samplers[i].wsi)

\* --------------------------------------------------------------------- C21
\* C21: one extract call asks the tissue segmenter for the sampling box
\* exactly once, however many candidates it draws afterwards (checked for
\* the attempts within max_iter).
C21_SegmentsOncePerExtract ==
    (made = "ok" /\ tiler.check_tissue /\ iteration <= tiler.max_iter) =>
        /\ n_box_requests <= 1
        /\ (pc = "done" => n_box_requests = 1)

\* --------------------------------------------------------------------- C22
\* C22: for a box with x_ul < x_br and y_ul < y_br inside the source extent
\* and any positive dimensions, the box scale_coordinates returns again has
\* x_ul < x_br and y_ul < y_br, and no negative coordinate.
C22_ScaleKeepsBox ==
    (/\ sc.pc = "returned"
     /\ sc.reference_coords[1] < sc.reference_coords[3]
     /\ sc.reference_coords[2] < sc.reference_coords[4]
     /\ sc.reference_coords[3] <= sc.reference_size[1]
     /\ sc.reference_coords[4] <= sc.reference_size[2]) =>
        /\ sc.out[1] < sc.out[3]
        /\ sc.out[2] < sc.out[4]
        /\ \A i \in 1..4 : sc.out[i] >= 0

\* --------------------------------------------------------------------- C23
\* C23: the box calculate_tissue_region returns is the bbox of a component
\* no other component is larger than, reordered from (row, column) to
\* (x_ul, y_ul, x_br, y_br) and scaled (floor) from the preview to level 0,
\* and it lies within the level-0 extent.
C23_BiggestRegionBox ==
    seg.pc = "returned" =>
        /\ \E i \in 1..Len(seg.regions) :
            /\ \A j \in 1..Len(seg.regions) :
                    seg.regions[j].area <= seg.regions[i].area
            /\ LET b == seg.regions[i].bbox
                   xy == <<b[2], b[1], b[4], b[3]>>
               IN  \A k \in 1..4 :
                     LET a == IF k \in {1, 3} THEN 1 ELSE 2
                     IN  /\ seg.out[k] * seg.size_in[a] <= xy[k] * seg.size_out[a]
                         /\ xy[k] * seg.size_out[a]
                                < (seg.out[k] + 1) * seg.size_in[a]
        /\ \A k \in 1..4 : seg.out[k] >= 0
        /\ seg.out[3] <= seg.size_out[1]
        /\ seg.out[4] <= seg.size_out[2]

\* a box was returned for two components of which the second is the larger,
\* with a bbox that differs in rows and columns
C23_Witness ==
    /\ seg.pc = "returned"
    /\ Len(seg.regions) = 2
    /\ seg.regions[1].area < seg.regions[2].area
    /\ seg.regions[2].bbox[1] # seg.regions[2].bbox[2]
    /\ seg.size_in[1] # seg.size_in[2]
    /\ seg.out # NoBox

\* --------------------------------------------------------------------- C24
\* C24: a tile with grayscale mean above 0.9 and standard deviation below
\* 0.09 is rejected before Otsu, dilation and hole filling are computed,
\* whatever the two thresholds are; a tile that fails one of the two
\* conditions goes on to them.
C24_FastReject ==
    /\ (/\ val.pc \notin {"off", "call"}
        /\ val.pixels.gray_mean > 900
        /\ val.pixels.gray_std < 90) =>
            /\ val.pc = "returned"
            /\ val.result = FALSE
            /\ ~val.otsu
    /\ (/\ val.pc = "returned"
        /\ ~(val.pixels.gray_mean > 900 /\ val.pixels.gray_std < 90)) =>
            val.otsu

\* an almost white tile whose mask would pass both later tests was rejected
\* without the morphology, under thresholds other than the defaults
C24_Witness ==
    /\ val.pc = "returned"
    /\ val.pixels.gray_mean > 900
    /\ val.pixels.gray_std < 90
    /\ val.threshold # <<8, 10>>
    /\ val.pixels.mask_ones * val.threshold[2]
            > val.threshold[1] * val.pixels.mask_size
    /\ val.pixels.mask_ones * (val.pixels.mask_size - val.pixels.mask_ones)
            * val.near_zero_var_threshold[2]
            >= val.near_zero_var_threshold[1]
                    * val.pixels.mask_size * val.pixels.mask_size
    /\ ~val.otsu
    /\ val.result = FALSE

\* --------------------------------------------------------------------- C25
\* C25: with check_tissue=False the sampler asks for no segmentation and
\* draws from the whole level-0 extent (0, 0, width0, height0); with
\* check_tissue=True it draws from the tissue box of the segmenter.
C25_SamplingBox ==
    (made = "ok" /\ pc \in {"read", "check", "yield", "resume", "test"}) =>
        IF tiler.check_tissue
        THEN box_coords_wsi = wsi.tissue_box
        ELSE /\ box_coords_wsi = <<0, 0, wsi.level_dimensions[1][1],
                                   wsi.level_dimensions[1][2]>>
             /\ n_box_requests = 0

\* a candidate was drawn with check_tissue=True from a tissue box that is
\* not the whole slide
C25_Witness ==
    /\ made = "ok"
    /\ pc = "read"
    /\ tiler.check_tissue
    /\ box_coords_wsi = wsi.tissue_box
    /\ box_coords_wsi # <<0, 0, wsi.level_dimensions[1][1],
                          wsi.level_dimensions[1][2]>>

\* --------------------------------------------------------------------- C26
\* C26: for a row whose output file exists, download with 'skip' makes no
\* request and leaves the file, with 'overwrite' removes the file and
\* requests it again, with 'strict' raises FileExistsError; any other
\* overwrite_mode raises ValueError before a row is processed or a file
\* touched.
C26_OverwriteModes ==
    /\ [][ /\ (/\ dl.pc = "row"
               /\ ~(dl.i >= Len(dl.rows) \/ (dl.n # 0 /\ dl.i = dl.n))
               /\ dl.files[dl.rows[dl.i + 1].filename] # "absent"
               /\ dl' # dl) =>
                 LET row == dl.rows[dl.i + 1]
                 IN  /\ dl.overwrite_mode = "skip" =>
                            /\ dl'.files = dl.files
                            /\ dl'.requested = dl.requested
                            /\ dl'.pc = "row"
                            /\ dl'.i = dl.i + 1
                     /\ dl.overwrite_mode = "overwrite" =>
                            /\ dl'.files[row.filename] = "absent"
                            /\ dl'.pc = "fetch"
                            /\ dl'.i = dl.i
                     /\ dl.overwrite_mode = "strict" =>
                            /\ dl'.pc = "raised"
                            /\ dl'.err = "FileExistsError"
                            /\ dl'.files = dl.files
                            /\ dl'.requested = dl.requested
           /\ (dl.pc = "fetch" /\ dl' # dl) =>
                 /\ dl'.requested = Append(dl.requested,
                                           dl.rows[dl.i + 1].uuid)
                 /\ (dl'.response = "ok" =>
                        dl'.files[dl.rows[dl.i + 1].filename] = "new")
           /\ (/\ dl.pc \in {"idle", "done", "raised"}
               /\ dl'.calls # dl.calls
               /\ dl'.overwrite_mode \notin {"strict", "overwrite", "skip"}) =>
                 /\ dl'.pc = "raised"
                 /\ dl'.err = "ValueError"
                 /\ dl'.files = dl.files ]_vars
    /\ []((dl.pc = "raised" /\ dl.err = "ValueError") =>
            (dl.i = 0 /\ dl.requested = <<>> /\ dl.removed = {}))

\* with 'overwrite' a file that was there has been removed and downloaded
\* again, after an earlier row of the same call
C26_Witness ==
    /\ dl.pc = "row"
    /\ dl.overwrite_mode = "overwrite"
    /\ dl.i = 2
    /\ dl.rows[2].filename \in dl.removed
    /\ dl.files[dl.rows[2].filename] = "new"

\* --------------------------------------------------------------------- C27
\* C27: a row whose download fails with a request error or a missing
\* Content-Disposition header does not stop the loop: its uuid is appended
\* to not_downloaded, no file is written for it and the next rows are
\* processed; a uuid whose download succeeded (its latest request wrote the
\* file) is never in not_downloaded.
C27_FailedRowsAreListed ==
    /\ [][(dl.pc = "fetch" /\ dl'.response \in {"RequestException", "KeyError"})
            => /\ dl'.not_downloaded =
                    Append(dl.not_downloaded, dl.rows[dl.i + 1].uuid)
               /\ dl'.files = dl.files
               /\ dl'.pc = "row"
               /\ dl'.i = dl.i + 1]_vars
    /\ [](\A u \in dl.succeeded :
            \A k \in 1..Len(dl.not_downloaded) : dl.not_downloaded[k] # u)

\* --------------------------------------------------------------------- C28
\* C28: encode_label raises ValueError whenever the dictionary given lacks a
\* key for a value of the column, whatever other keys it has; otherwise it
\* returns the encoded column and the reversed dictionary (checked for a
\* column that exists and a dictionary with at least one key).
C28_MissingKeyIsValueError ==
    (/\ enc.pc \in {"returned", "raised"}
     /\ enc.has_column
     /\ enc.given
     /\ DOMAIN enc.encoding_dictionary # {}) =>
        IF \E k \in 1..Len(enc.values) :
                enc.values[k] \notin DOMAIN enc.encoding_dictionary
        THEN enc.pc = "raised" /\ enc.err = "ValueError"
        ELSE /\ enc.pc = "returned"
             /\ enc.encoded = [k \in 1..Len(enc.values) |->
                                  enc.encoding_dictionary[enc.values[k]]]
             /\ \A key \in DOMAIN enc.encoding_dictionary :
                    enc.reversed[enc.encoding_dictionary[key]] = key

\* --------------------------------------------------------------------- C29
\* C29 as stated: scaling a coordinate up (to >= from > 0 on each axis) and
\* back down gives the coordinate again.
C29_RoundTripExact ==
    (/\ sc.pc = "back"
     /\ sc.target_size[1] >= sc.reference_size[1]
     /\ sc.target_size[2] >= sc.reference_size[2])
        => sc.back = sc.reference_coords

\* C29 as amended: scaling a coordinate c up and back down gives c when to
\* is a multiple of from on the axis, and c or c - 1 for any to >= from.
C29_RoundTripWithinOne ==
    (/\ sc.pc = "back"
     /\ sc.target_size[1] >= sc.reference_size[1]
     /\ sc.target_size[2] >= sc.reference_size[2]) =>
        \A i \in 1..4 :
            LET a == IF i \in {1, 3} THEN 1 ELSE 2
                c == sc.reference_coords[i]
            IN  /\ sc.back[i] \in {c - 1, c}
                /\ (sc.target_size[a] % sc.reference_size[a] = 0
                        => sc.back[i] = c)

\* a box scaled up and back: x by a ratio that is not an integer lost one,
\* y by an integer ratio above 1 came back exactly
C29_Witness ==
    /\ sc.pc = "back"
    /\ sc.target_size[1] > sc.reference_size[1]
    /\ sc.target_size[1] % sc.reference_size[1] # 0
    /\ sc.back[3] = sc.reference_coords[3] - 1
    /\ sc.target_size[2] > sc.reference_size[2]
    /\ sc.target_size[2] % sc.reference_size[2] = 0
    /\ sc.back[4] = sc.reference_coords[4]

\* --------------------------------------------------------------------- C30
\* C30: with threshold 0.8 and near_zero_var_threshold 0.1 a tile is
\* accepted only if its foreground fraction f has f > 0.8 and
\* f * (1 - f) >= 0.1, so every tile whose filled mask is more than about
\* 88.7% foreground (here: more than 888 in 1000) is rejected.
C30_AcceptedFractionBounded ==
    (/\ val.pc = "returned"
     /\ val.threshold = <<8, 10>>
     /\ val.near_zero_var_threshold = <<1, 10>>) =>
        LET n == val.pixels.mask_size
            k == val.pixels.mask_ones
        IN  /\ val.result => (10 * k > 8 * n /\ 10 * k * (n - k) >= n * n)
            /\ (1000 * k > 888 * n) => ~val.result

\* a tile that is 9/10 foreground, not all foreground and not almost white,
\* was rejected under the defaults
C30_Witness ==
    /\ val.pc = "returned"
    /\ val.otsu
    /\ val.threshold = <<8, 10>>
    /\ val.near_zero_var_threshold = <<1, 10>>
    /\ val.pixels.mask_ones < val.pixels.mask_size
    /\ 1000 * val.pixels.mask_ones > 888 * val.pixels.mask_size
    /\ val.result = FALSE

====
